---- MODULE Spec2Model ----
(***************************************************************************)
(* Model of src/src/london_baseline.py: a linear script that, for every    *)
(* line of an evaluation corpus, asks a pretrained character model for a   *)
(* completion, writes the completion to an outputs file, and finally has   *)
(* evaluate_places score the collected predictions.                        *)
(*                                                                         *)
(* Strings are sequences of one-character strings.  The names the script   *)
(* uses without defining them (args, pretrain_dataset, gpt_model, utils,   *)
(* evaluate_places, tqdm, torch, device) are ambient collaborators: the    *)
(* vocabulary is an input chosen in Init, the sampler's output is an input *)
(* chosen at every call, and evaluate_places follows its stated contract.  *)
(***************************************************************************)
EXTENDS Integers, Sequences, FiniteSets, TLC

VARIABLES
    pc,            \* position of the script
    corpus,        \* text of the file at args.eval_corpus_path
    corpusExists,  \* whether open(args.eval_corpus_path) can succeed
    itos,          \* pretrain_dataset.itos: token index (0-based) -> character
    k,             \* number of lines the for loop has processed in full
    xs,            \* history: the input text handed to the sampler, per line
    sampled,       \* history: the text the sampler generated, per line
    predictions,   \* the list predictions
    fout,          \* state of the handle fout: "unopened", "open", "closed"
    buffer,        \* characters written to fout and not yet on disk
    disk,          \* text of the file at args.outputs_path
    total,         \* the variable total
    correct,       \* the variable correct
    evalLog,       \* history: one record per call of evaluate_places
    stdout,        \* the lines printed so far
    err            \* the exception that ended the run, or "none"

vars == << pc, corpus, corpusExists, itos, k, xs, sampled, predictions,
           fout, buffer, disk, total, correct, evalLog, stdout, err >>

-----------------------------------------------------------------------------
(* Characters *)

TAB  == "\t"
NL   == "\n"
SENT == "??"       \* stands for the one character U+2047 of lines 12 and 16

London == << "L", "o", "n", "d", "o", "n" >>

\* the longest corpus, in lines
MaxLines == 2

\* utils.sample(gpt_model, x, 32, sample=False): the number of sampling steps
MaxNewTokens == 32

-----------------------------------------------------------------------------
(* Python's string and file primitives *)

Chars(s) == { s[i] : i \in 1..Len(s) }

FirstIndex(s, c) == CHOOSE i \in 1..Len(s) : s[i] = c /\ \A j \in 1..(i-1) : s[j] # c

RECURSIVE Split(_, _)
\* str.split(sep) for a one-character separator: always at least one segment
Split(s, sep) ==
    IF sep \notin Chars(s)
    THEN << s >>
    ELSE LET i == FirstIndex(s, sep)
         IN  << SubSeq(s, 1, i-1) >> \o Split(SubSeq(s, i+1, Len(s)), sep)

RECURSIVE ReadLines(_)
\* iterating a text file: each line keeps its terminating newline
ReadLines(t) ==
    IF t = << >>
    THEN << >>
    ELSE IF NL \notin Chars(t)
         THEN << t >>
         ELSE LET i == FirstIndex(t, NL)
              IN  << SubSeq(t, 1, i) >> \o ReadLines(SubSeq(t, i+1, Len(t)))

RECURSIVE Concat(_)
Concat(ss) == IF ss = << >> THEN << >> ELSE Head(ss) \o Concat(Tail(ss))

-----------------------------------------------------------------------------
(* The collaborators: vocabulary, sampler, scoring helper *)

\* pretrain_dataset.stoi[s]; the lookup raises KeyError when s has no entry
InVocab(c) == \E i \in 1..Len(itos) : itos[i] = c
Stoi(c) == (CHOOSE i \in 1..Len(itos) : itos[i] = c) - 1
Itos(t) == itos[t + 1]

\* [pretrain_dataset.stoi[s] for s in x]
Encode(s) == [ i \in 1..Len(s) |-> Stoi(s[i]) ]
Encodable(s) == \A i \in 1..Len(s) : InVocab(s[i])

\* ''.join([pretrain_dataset.itos[int(i)] for i in pred])
Decode(ts) == [ i \in 1..Len(ts) |-> Itos(ts[i]) ]

\* the texts the model is tried with as its continuation of a prompt
Continuations ==
    { London \o << SENT, "a" >>,
      << "b" >>,
      << SENT >>,
      << "a", NL, "b", SENT >> }

\* utils.sample: the prompt's tokens followed by the tokens it generated
Sample(prompt, new) == prompt \o new

StripNL(line) ==
    IF line # << >> /\ line[Len(line)] = NL THEN SubSeq(line, 1, Len(line) - 1) ELSE line

Fields(line) == Split(StripNL(line), TAB)
HasLabel(line) == Len(Fields(line)) >= 2
TrueLabel(line) == Fields(line)[2]

\* evaluate_places(filepath, predicted_places): the number of lines of the
\* file, and the number of them whose second field equals the prediction at
\* the same position
EvaluatePlaces(text, preds) ==
    LET ls == ReadLines(text)
        hits == { i \in 1..Len(ls) :
                    /\ i <= Len(preds)
                    /\ HasLabel(ls[i])
                    /\ TrueLabel(ls[i]) = preds[i] }
    IN  << Len(ls), Cardinality(hits) >>

-----------------------------------------------------------------------------
(* The statements of the script *)

\* mutant: the line is stripped before it is split
FirstField_Stripped(line) == Split(StripNL(line), TAB)[1]

\* line.split('\t')[0]
FirstField(line) == Split(line, TAB)[1]

\* x = x + SENT
Prompt(line) == FirstField(line) \o << SENT >>

\* completion.split(SENT)[1]
Completion(text) == Split(text, SENT)[2]

\* mutant: the prediction is put at the front
AppendPrediction_Front(preds, pred) == << pred >> \o preds

\* predictions.append(pred)
AppendPrediction(preds, pred) == Append(preds, pred)

\* fout.write(pred + '\n')
WriteLine(buf, pred) == buf \o pred \o << NL >>

\* mutant: the file is opened for appending
OpenedFile_Append(old) == old

\* open(args.outputs_path, 'w'): the file is created empty
OpenedFile(old) == << >>

\* mutant: the file is flushed and left open
CloseOutputs_FlushOnly ==
    /\ fout' = fout
    /\ disk' = disk \o buffer
    /\ buffer' = << >>

\* leaving the with block, normally or by an exception: fout.close()
CloseOutputs ==
    /\ fout' = "closed"
    /\ disk' = disk \o buffer
    /\ buffer' = << >>

\* mutant: the guard lets a total of 0 through
ShouldPrint_NonNegative(t) == t >= 0

\* if total > 0:
ShouldPrint(t) == t > 0

\* 'Correct: {} out of {}: {}%'.format(correct, total, correct/total*100);
\* the quotient is kept exact, as numerator and denominator
AccuracyLine(c, t) ==
    [ format |-> "Correct: {} out of {}: {}%",
      correct |-> c, total |-> t, percentage |-> << c * 100, t >> ]

Lines == ReadLines(corpus)

-----------------------------------------------------------------------------
(* Inputs *)

LineBodies ==
    { << "a", TAB >> \o London,
      << "a", TAB, "b" >>,
      << "a", SENT, "b", TAB >> \o London,
      << "z", TAB >> \o London,
      << "a" >> }

\* n lines, each newline-terminated except possibly the last
CorpusText(bodies, lastNL) ==
    Concat([ i \in 1..Len(bodies) |->
               IF i < Len(bodies) \/ lastNL THEN bodies[i] \o << NL >> ELSE bodies[i] ])

Corpora ==
    UNION { { CorpusText(bs, nl) : bs \in [1..n -> LineBodies], nl \in BOOLEAN } :
            n \in 0..MaxLines }

BaseItos == << SENT, "L", "o", "n", "d", "a", "b" >>

Vocabularies == { BaseItos, BaseItos \o << NL >> }

\* what the outputs file holds before the run
OldOutputs == { << >>, << "b", NL >> }

-----------------------------------------------------------------------------
(* Lines 6-7 have run: correct = 0, total = 0 *)
Init ==
    /\ pc = "open"
    /\ corpus \in Corpora
    /\ corpusExists \in BOOLEAN
    /\ (~corpusExists => corpus = << >>)
    /\ itos \in Vocabularies
    /\ k = 0
    /\ xs = << >>
    /\ sampled = << >>
    /\ predictions = << >>
    /\ fout = "unopened"
    /\ buffer = << >>
    /\ disk \in OldOutputs
    /\ total = 0
    /\ correct = 0
    /\ evalLog = << >>
    /\ stdout = << >>
    /\ err = "none"

\* line 8: with open(args.outputs_path, 'w') as fout
OpenOutputs ==
    /\ pc = "open"
    /\ fout' = "open"
    /\ disk' = OpenedFile(disk)
    /\ buffer' = << >>
    /\ pc' = "begin"
    /\ UNCHANGED << corpus, corpusExists, itos, k, xs, sampled, predictions,
                    total, correct, evalLog, stdout, err >>

\* lines 9-10: predictions = []; open(args.eval_corpus_path)
BeginLoop ==
    /\ pc = "begin"
    /\ corpusExists
    /\ predictions' = << >>
    /\ k' = 0
    /\ pc' = "loop"
    /\ UNCHANGED << corpus, corpusExists, itos, xs, sampled, fout, buffer, disk,
                    total, correct, evalLog, stdout, err >>

\* lines 9-10 when the corpus cannot be opened: the exception leaves the with
BeginLoopRaises ==
    /\ pc = "begin"
    /\ ~corpusExists
    /\ predictions' = << >>
    /\ CloseOutputs
    /\ err' = "FileNotFoundError"
    /\ pc' = "failed"
    /\ UNCHANGED << corpus, corpusExists, itos, k, xs, sampled,
                    total, correct, evalLog, stdout >>

\* lines 10-18: one iteration of the loop that raises nothing
ProcessLine ==
    /\ pc = "loop"
    /\ k < Len(Lines)
    /\ LET line == Lines[k + 1]
       IN  /\ Encodable(Prompt(line))
           /\ \E g \in Continuations :
                /\ Len(g) <= MaxNewTokens
                /\ Encodable(g)
                /\ LET pred == Completion(Decode(Sample(Encode(Prompt(line)), Encode(g))))
                   IN  /\ xs' = Append(xs, FirstField(line))
                       /\ sampled' = Append(sampled, g)
                       /\ predictions' = AppendPrediction(predictions, pred)
                       /\ buffer' = WriteLine(buffer, pred)
    /\ k' = k + 1
    /\ UNCHANGED << pc, corpus, corpusExists, itos, fout, disk,
                    total, correct, evalLog, stdout, err >>

\* lines 10-13: a character of the prompt has no entry in stoi; the KeyError
\* leaves the with block
ProcessLineRaises ==
    /\ pc = "loop"
    /\ k < Len(Lines)
    /\ ~Encodable(Prompt(Lines[k + 1]))
    /\ CloseOutputs
    /\ err' = "KeyError"
    /\ pc' = "failed"
    /\ UNCHANGED << corpus, corpusExists, itos, k, xs, sampled, predictions,
                    total, correct, evalLog, stdout >>

\* mutant: the call sits inside the for loop
LoopExhausted_Early == k <= Len(Lines)

\* line 19, reached when the loop has consumed every line
LoopExhausted == k = Len(Lines)

Evaluate ==
    /\ pc = "loop"
    /\ LoopExhausted
    /\ LET r == EvaluatePlaces(corpus, predictions)
       IN  /\ total' = r[1]
           /\ correct' = r[2]
    /\ evalLog' = Append(evalLog, [ fout |-> fout, buffered |-> Len(buffer),
                                    npred |-> Len(predictions), k |-> k ])
    /\ pc' = "exit"
    /\ UNCHANGED << corpus, corpusExists, itos, k, xs, sampled, predictions,
                    fout, buffer, disk, stdout, err >>

\* the end of the with block of line 8
ExitWith ==
    /\ pc = "exit"
    /\ CloseOutputs
    /\ pc' = "print"
    /\ UNCHANGED << corpus, corpusExists, itos, k, xs, sampled, predictions,
                    total, correct, evalLog, stdout, err >>

\* lines 21-22
PrintAccuracy ==
    /\ pc = "print"
    /\ IF ShouldPrint(total)
       THEN IF total = 0
            THEN /\ err' = "ZeroDivisionError"
                 /\ pc' = "failed"
                 /\ stdout' = stdout
            ELSE /\ stdout' = Append(stdout, AccuracyLine(correct, total))
                 /\ pc' = "done"
                 /\ err' = err
       ELSE /\ pc' = "done"
            /\ UNCHANGED << stdout, err >>
    /\ UNCHANGED << corpus, corpusExists, itos, k, xs, sampled, predictions,
                    fout, buffer, disk, total, correct, evalLog >>

Next ==
    \/ OpenOutputs
    \/ BeginLoop
    \/ BeginLoopRaises
    \/ ProcessLine
    \/ ProcessLineRaises
    \/ Evaluate
    \/ ExitWith
    \/ PrintAccuracy

Spec == Init /\ [][Next]_vars

Terminal == pc \in { "done", "failed" }

-----------------------------------------------------------------------------
(* Properties *)

N == Len(Lines)

\* the text that follows the prompt of line i in what the model returned for
\* it, up to the next sentinel
PredictionOf(i) == Split(sampled[i], SENT)[1]

\* the text of the outputs file the predictions of lines 1..n make up
Written(n) == Concat([ i \in 1..n |-> predictions[i] \o << NL >> ])

LondonCount ==
    Cardinality({ i \in 1..N : HasLabel(Lines[i]) /\ TrueLabel(Lines[i]) = London })

NoTab(line) == TAB \notin Chars(line)

\* C1: a finished run over N records, M of them labelled "London", ends with
\* total = N and correct = M, as a predictor that always answers "London" does.
C1_BaselineCounts ==
    pc = "done" => (total = N /\ correct = LondonCount)

\* C2: on a corpus of zero lines the run raises nothing, always has a next
\* step until it is done, and ends with total = 0 and correct = 0.
C2_EmptyCorpus ==
    (corpusExists /\ corpus = << >>) =>
        /\ err = "none"
        /\ pc # "failed"
        /\ (pc # "done" => ENABLED Next)
        /\ (pc = "done" => total = 0 /\ correct = 0)

C2_Witness == corpusExists /\ corpus = << >> /\ pc = "done" /\ Len(evalLog) = 1

\* C3: after k lines have been processed the list predictions has k elements,
\* the i-th being the prediction made from the i-th line, and the scoring
\* helper is handed N predictions for N lines.
C3_OrderPreserved ==
    /\ Len(predictions) = k
    /\ Len(sampled) = k
    /\ \A i \in 1..k :
         predictions[i] = Completion(Prompt(Lines[i]) \o sampled[i])
    /\ \A j \in 1..Len(evalLog) : evalLog[j].npred = N

C3_Witness ==
    /\ k = 2
    /\ predictions[1] # predictions[2]
    /\ Len(evalLog) = 1

\* C4: after a run over N lines that raised nothing, the outputs file is N
\* newline-terminated lines, the i-th being the prediction of the i-th line.
C4_OneLinePerPrediction ==
    pc = "done" =>
        /\ Len(ReadLines(disk)) = N
        /\ \A i \in 1..N : i <= Len(ReadLines(disk)) =>
                             ReadLines(disk)[i] = predictions[i] \o << NL >>

\* C5: a run that ends without an error has printed exactly one accuracy
\* line, and a run that ends with an error has printed none.
C5_OneAccuracyLine ==
    /\ pc = "done" => stdout = << AccuracyLine(correct, total) >>
    /\ pc = "failed" => stdout = << >>

C7_NoTabIsFatal ==
    \A i \in 1..Len(predictions) : ~NoTab(Lines[i])

\* C7 as amended: a line with no tab character raises nothing at the split;
\* the whole line, newline included, is the input text, a prediction is made
\* for it, and the run ends at such a line only by the KeyError of a
\* character (or the sentinel) the vocabulary lacks.
C7_NoTabLineIsInput ==
    /\ \A i \in 1..Len(xs) :
         NoTab(Lines[i]) => (xs[i] = Lines[i] /\ i <= Len(predictions))
    /\ (pc = "failed" /\ k < N /\ NoTab(Lines[k + 1])) =>
         /\ err = "KeyError"
         /\ \E c \in Chars(Lines[k + 1]) \cup { SENT } : ~InVocab(c)
    /\ pc = "done" => Len(predictions) = N

C7_Witness ==
    /\ pc = "done"
    /\ \E i \in 1..Len(predictions) : NoTab(Lines[i]) /\ NL \in Chars(Lines[i])

\* C8: every recorded prediction is what the model generated after the
\* prompt, up to the next sentinel, whatever the input text.
C8_CompletionFollowsInput ==
    \A i \in 1..Len(predictions) : predictions[i] = PredictionOf(i)

C10_PartialOutput ==
    /\ fout = "open" => disk = << >>
    /\ pc = "failed" =>
         /\ k < N \/ ~corpusExists
         /\ Len(predictions) = k
         /\ disk = Written(k)
         /\ evalLog = << >>
         /\ total = 0
         /\ correct = 0

C10_Witness ==
    /\ pc = "failed"
    /\ err = "KeyError"
    /\ k = 1
    /\ disk = predictions[1] \o << NL >>

====
